---- MODULE Spec2Model ----
(***************************************************************************)
(* The sales dashboard: load_data, filter_data and the six reducers of     *)
(* data_loader.py, driven by the script of app.py.                         *)
(*                                                                         *)
(* A DataFrame is a sequence of rows; each row carries its index label.    *)
(* Sales amounts are whole numbers, so every float64 sum of them is exact; *)
(* float64 quotients and products are computed bit for bit (53-bit         *)
(* significand, round to nearest, ties to even).                           *)
(***************************************************************************)
EXTENDS Integers, Sequences, FiniteSets

VARIABLES df, args, filtered_df, kpis, category_sales, subcategory_sales,
          regional_sales, time_series, shipping_analysis, segment_performance,
          phase

vars == <<df, args, filtered_df, kpis, category_sales, subcategory_sales,
          regional_sales, time_series, shipping_analysis, segment_performance,
          phase>>

\* Largest number of rows of data/train.csv in the filter specification.
MaxRecords == 2

\* Largest number of rows of data/train.csv in the aggregation specification.
MaxAggRecords == 3

(***************************************************************************)
(* float64                                                                 *)
(***************************************************************************)

\* The 52 stored significand bits are kept as four 13-bit limbs.
Limb == 2 ^ 13

NaN == [kind |-> "nan"]
Inf == [kind |-> "inf"]
Zero == [kind |-> "zero"]

Compare(x, y) == IF x > y THEN 1 ELSE IF x = y THEN 0 ELSE -1

RECURSIVE Normalize(_, _, _)
\* <<a2, b2, e>> with a / b = (a2 / b2) * 2^e and 1 <= a2 / b2 < 2
Normalize(a, b, e) ==
    IF a < b THEN Normalize(2 * a, b, e - 1)
    ELSE IF a >= 2 * b THEN Normalize(a, 2 * b, e + 1)
    ELSE <<a, b, e>>

\* half: the dropped part is above (1), equal to (0) or below (-1) half a
\* unit in the last place
RoundNearestEven(e, man, half) ==
    LET up == half = 1 \/ (half = 0 /\ man[4] % 2 = 1)
        c4 == IF up /\ man[4] = Limb - 1 THEN 1 ELSE 0
        c3 == IF c4 = 1 /\ man[3] = Limb - 1 THEN 1 ELSE 0
        c2 == IF c3 = 1 /\ man[2] = Limb - 1 THEN 1 ELSE 0
        c1 == IF c2 = 1 /\ man[1] = Limb - 1 THEN 1 ELSE 0
    IN  IF ~up THEN [kind |-> "num", exp |-> e, man |-> man]
        ELSE [kind |-> "num", exp |-> e + c1,
              man |-> << (man[1] + c2) % Limb, (man[2] + c3) % Limb,
                         (man[3] + c4) % Limb, (man[4] + 1) % Limb >>]

\* a / b for whole numbers a, b >= 0, as float64 true division gives it
F64Div(a, b) ==
    IF b = 0 THEN (IF a = 0 THEN NaN ELSE Inf)
    ELSE IF a = 0 THEN Zero
    ELSE LET n == Normalize(a, b, 0)
             d == n[2]
             x1 == (n[1] - d) * Limb
             x2 == (x1 % d) * Limb
             x3 == (x2 % d) * Limb
             x4 == (x3 % d) * Limb
         IN  RoundNearestEven(n[3], <<x1 \div d, x2 \div d, x3 \div d, x4 \div d>>,
                              Compare(2 * (x4 % d), d))

RECURSIVE BitLength(_)
BitLength(t) == IF t <= 1 THEN 0 ELSE 1 + BitLength(t \div 2)

RECURSIVE Pow2(_)
Pow2(s) == IF s = 0 THEN 1 ELSE 2 * Pow2(s - 1)

\* x * k for a float64 x and a whole number 0 < k < Limb
F64TimesInt(x, k) ==
    IF x.kind # "num" THEN x
    ELSE LET p4 == x.man[4] * k
             p3 == x.man[3] * k + p4 \div Limb
             p2 == x.man[2] * k + p3 \div Limb
             p1 == x.man[1] * k + p2 \div Limb
             top == k + p1 \div Limb
             l1 == p1 % Limb
             l2 == p2 % Limb
             l3 == p3 % Limb
             l4 == p4 % Limb
             s == BitLength(top)
             lo == Pow2(s)
             hi == Limb \div lo
         IN  RoundNearestEven(x.exp + s,
                 << (top - lo) * hi + l1 \div lo, (l1 % lo) * hi + l2 \div lo,
                    (l2 % lo) * hi + l3 \div lo, (l3 % lo) * hi + l4 \div lo >>,
                 IF s = 0 THEN -1 ELSE Compare(2 * (l4 % lo), lo))

ManLess(x, y) ==
    \E i \in 1..4 : x[i] < y[i] /\ \A j \in 1..(i - 1) : x[j] = y[j]

\* x < y on float64: every comparison with NaN is false
F64Less(x, y) ==
    CASE x.kind = "nan" \/ y.kind = "nan" -> FALSE
      [] x.kind = "inf" -> FALSE
      [] y.kind = "inf" -> TRUE
      [] x.kind = "zero" -> y.kind = "num"
      [] y.kind = "zero" -> FALSE
      [] OTHER -> x.exp < y.exp \/ (x.exp = y.exp /\ ManLess(x.man, y.man))

(***************************************************************************)
(* Dates                                                                   *)
(***************************************************************************)

IsLeap(y) == y % 4 = 0 /\ (y % 100 # 0 \/ y % 400 = 0)

DaysBeforeMonth(y, m) ==
    LET cum == <<0, 31, 59, 90, 120, 151, 181, 212, 243, 273, 304, 334>>
    IN  cum[m] + (IF m > 2 /\ IsLeap(y) THEN 1 ELSE 0)

\* A Timestamp at midnight, counted in days (the proleptic Gregorian ordinal).
Timestamp(y, m, d) ==
    (y - 1) * 365 + (y - 1) \div 4 - (y - 1) \div 100 + (y - 1) \div 400
        + DaysBeforeMonth(y, m) + d

\* pd.to_datetime(text, format='%d/%m/%Y'): the text is day/month/year
to_datetime(text) == Timestamp(text[3], text[2], text[1])

\* pd.Timestamp(date) of a datetime.date <<year, month, day>>
TimestampOfDate(date) == Timestamp(date[1], date[2], date[3])

(***************************************************************************)
(* data/train.csv                                                          *)
(***************************************************************************)

\* Orders: id, order date and ship date as the file writes them (d/m/Y).
Orders ==
    { [OrderID |-> "A", OrderDate |-> <<1, 1, 2023>>, ShipDate |-> <<3, 1, 2023>>,
       Region |-> "West", Segment |-> "Consumer"],
      [OrderID |-> "B", OrderDate |-> <<15, 1, 2023>>, ShipDate |-> <<16, 1, 2023>>,
       Region |-> "East", Segment |-> "Corporate"],
      [OrderID |-> "C", OrderDate |-> <<1, 2, 2023>>, ShipDate |-> <<1, 2, 2023>>,
       Region |-> "West", Segment |-> "Home Office"] }

\* Line items: what is sold, and for how much.
Items ==
    { [Category |-> "Furniture", SubCategory |-> "Chairs", Sales |-> 100],
      [Category |-> "Furniture", SubCategory |-> "Tables", Sales |-> 50],
      [Category |-> "Technology", SubCategory |-> "Phones", Sales |-> 200],
      [Category |-> "Office Supplies", SubCategory |-> "Paper", Sales |-> 0] }

CsvRows ==
    { [OrderID |-> o.OrderID, OrderDate |-> o.OrderDate, ShipDate |-> o.ShipDate,
       Region |-> o.Region, Segment |-> o.Segment, Category |-> i.Category,
       SubCategory |-> i.SubCategory, Sales |-> i.Sales] : o \in Orders, i \in Items }

\* Every file of at most n rows.
CsvFiles(n) == UNION { [1..k -> CsvRows] : k \in 0..n }

\* The order a sorted group-by gives the keys (strings sort by code point).
RegionOrder == <<"East", "West">>
SegmentOrder == <<"Consumer", "Corporate", "Home Office">>
CategoryOrder == <<"Furniture", "Office Supplies", "Technology">>
SubCategoryOrder ==
    << <<"Furniture", "Chairs">>, <<"Furniture", "Tables">>,
       <<"Office Supplies", "Paper">>, <<"Technology", "Phones">> >>
PeriodOrder == << <<2023, 1>>, <<2023, 2>> >>

(***************************************************************************)
(* data_loader.py                                                          *)
(***************************************************************************)

load_data(csv) ==
    [ i \in 1..Len(csv) |->
        LET r == csv[i]
            od == to_datetime(r.OrderDate)
            sd == to_datetime(r.ShipDate)
        IN  [ index |-> i - 1,
              OrderID |-> r.OrderID, OrderDate |-> od, ShipDate |-> sd,
              Region |-> r.Region, Segment |-> r.Segment,
              Category |-> r.Category, SubCategory |-> r.SubCategory,
              Sales |-> r.Sales,
              ShippingDays |-> sd - od,
              Year |-> r.OrderDate[3], Month |-> r.OrderDate[2],
              YearMonth |-> <<r.OrderDate[3], r.OrderDate[2]>> ] ]

\* An optional list argument: None, or the values of the list.
None == [none |-> TRUE, items |-> {}]
List(s) == [none |-> FALSE, items |-> s]
\* An optional tuple argument: None, or the tuple.
NoRange == [none |-> TRUE, items |-> <<>>]
Tuple(t) == [none |-> FALSE, items |-> t]

\* Mutant of Applies: `x is not None` in place of `x and len(x) > 0`.
AppliesIfGiven(x) == ~x.none

\* `x and len(x) > 0` of a list argument
Applies(x) == ~x.none /\ x.items # {} /\ Cardinality(x.items) > 0

\* `date_range and len(date_range) == 2`
RangeApplies(x) == ~x.none /\ x.items # <<>> /\ Len(x.items) = 2

\* Mutant of filter_data: the sub-category selection is not applied.
filter_data_without_sub_categories(d, regions, segments, categories, sub_categories, date_range) ==
    LET f1 == IF Applies(regions)
              THEN SelectSeq(d, LAMBDA r : r.Region \in regions.items) ELSE d
        f2 == IF Applies(segments)
              THEN SelectSeq(f1, LAMBDA r : r.Segment \in segments.items) ELSE f1
        f3 == IF Applies(categories)
              THEN SelectSeq(f2, LAMBDA r : r.Category \in categories.items) ELSE f2
    IN  IF RangeApplies(date_range)
        THEN SelectSeq(f3, LAMBDA r :
                 /\ r.OrderDate >= TimestampOfDate(date_range.items[1])
                 /\ r.OrderDate <= TimestampOfDate(date_range.items[2]))
        ELSE f3

\* Mutant of filter_data: the end of the date range is exclusive.
filter_data_end_exclusive(d, regions, segments, categories, sub_categories, date_range) ==
    LET f1 == IF Applies(regions)
              THEN SelectSeq(d, LAMBDA r : r.Region \in regions.items) ELSE d
        f2 == IF Applies(segments)
              THEN SelectSeq(f1, LAMBDA r : r.Segment \in segments.items) ELSE f1
        f3 == IF Applies(categories)
              THEN SelectSeq(f2, LAMBDA r : r.Category \in categories.items) ELSE f2
        f4 == IF Applies(sub_categories)
              THEN SelectSeq(f3, LAMBDA r : r.SubCategory \in sub_categories.items) ELSE f3
    IN  IF RangeApplies(date_range)
        THEN SelectSeq(f4, LAMBDA r :
                 /\ r.OrderDate >= TimestampOfDate(date_range.items[1])
                 /\ r.OrderDate < TimestampOfDate(date_range.items[2]))
        ELSE f4

filter_data(d, regions, segments, categories, sub_categories, date_range) ==
    LET f0 == d
        f1 == IF Applies(regions)
              THEN SelectSeq(f0, LAMBDA r : r.Region \in regions.items) ELSE f0
        f2 == IF Applies(segments)
              THEN SelectSeq(f1, LAMBDA r : r.Segment \in segments.items) ELSE f1
        f3 == IF Applies(categories)
              THEN SelectSeq(f2, LAMBDA r : r.Category \in categories.items) ELSE f2
        f4 == IF Applies(sub_categories)
              THEN SelectSeq(f3, LAMBDA r : r.SubCategory \in sub_categories.items) ELSE f3
        f5 == IF RangeApplies(date_range)
              THEN SelectSeq(f4, LAMBDA r :
                       /\ r.OrderDate >= TimestampOfDate(date_range.items[1])
                       /\ r.OrderDate <= TimestampOfDate(date_range.items[2]))
              ELSE f4
    IN  f5

RECURSIVE SumOf(_)
SumOf(values) == IF values = <<>> THEN 0 ELSE Head(values) + SumOf(Tail(values))

\* Series.sum(): the sum of column col over the rows
SeriesSum(rows, col) == SumOf([ i \in 1..Len(rows) |-> rows[i][col] ])

\* Series.mean(): NaN on no rows
SeriesMean(rows, col) == F64Div(SeriesSum(rows, col), Len(rows))

\* Series.nunique()
nunique(rows, col) == Cardinality({ rows[i][col] : i \in 1..Len(rows) })

\* Mutant of get_kpi_metrics: orders are counted per row, not per order id.
get_kpi_metrics_per_row(d) ==
    LET total_sales == SeriesSum(d, "Sales")
        total_orders == Len(d)
    IN  [ total_sales |-> total_sales, total_orders |-> total_orders,
          avg_order_value |-> IF total_orders > 0
                              THEN F64Div(total_sales, total_orders) ELSE Zero,
          avg_shipping_days |-> SeriesMean(d, "ShippingDays") ]

get_kpi_metrics(d) ==
    LET total_sales == SeriesSum(d, "Sales")
        total_orders == nunique(d, "OrderID")
        avg_order_value == IF total_orders > 0
                           THEN F64Div(total_sales, total_orders) ELSE Zero
        avg_shipping_days == SeriesMean(d, "ShippingDays")
    IN  [ total_sales |-> total_sales, total_orders |-> total_orders,
          avg_order_value |-> avg_order_value,
          avg_shipping_days |-> avg_shipping_days ]

\* The group a row is in under groupby(by), by a tuple of column names.
KeyOf(r, by) == IF Len(by) = 1 THEN r[by[1]] ELSE [ c \in 1..Len(by) |-> r[by[c]] ]

\* df.groupby(by): the keys present, in sorted order
GroupKeys(d, by, order) ==
    SelectSeq(order, LAMBDA k : \E i \in 1..Len(d) : KeyOf(d[i], by) = k)

\* Mutant of GroupSum: first() in place of sum().
GroupFirst(d, by, order) ==
    LET keys == GroupKeys(d, by, order)
    IN  [ g \in 1..Len(keys) |->
            [ key |-> keys[g],
              Sales |-> Head(SelectSeq(d, LAMBDA r : KeyOf(r, by) = keys[g])).Sales ] ]

\* df.groupby(by)['Sales'].sum().reset_index()
GroupSum(d, by, order) ==
    LET keys == GroupKeys(d, by, order)
    IN  [ g \in 1..Len(keys) |->
            [ key |-> keys[g],
              Sales |-> SeriesSum(SelectSeq(d, LAMBDA r : KeyOf(r, by) = keys[g]), "Sales") ] ]

\* df.groupby(by)['Shipping Days'].mean().reset_index()
GroupMean(d, by, order) ==
    LET keys == GroupKeys(d, by, order)
    IN  [ g \in 1..Len(keys) |->
            [ key |-> keys[g],
              AvgShippingDays |->
                  SeriesMean(SelectSeq(d, LAMBDA r : KeyOf(r, by) = keys[g]), "ShippingDays") ] ]

RECURSIVE SortedOrders(_, _, _)
\* The orders in which a sort by Sales can leave the rows `rows` of the table:
\* each row of the best Sales in turn, then the others likewise.
SortedOrders(table, rows, ascending) ==
    IF rows = {} THEN { <<>> }
    ELSE UNION { { <<table[i]>> \o rest :
                     rest \in SortedOrders(table, rows \ {i}, ascending) } :
                 i \in { j \in rows : \A k \in rows :
                            IF ascending THEN table[j].Sales <= table[k].Sales
                                         ELSE table[j].Sales >= table[k].Sales } }

\* Mutant of sort_values: ascending.
sort_values_ascending(table) == SortedOrders(table, 1..Len(table), TRUE)

\* table.sort_values('Sales', ascending=False): the sort is the default
\* kind='quicksort', which is not stable, so rows of equal Sales may come out
\* in any order.
sort_values(table) == SortedOrders(table, 1..Len(table), FALSE)

\* The (category_sales, subcategory_sales) pairs get_category_performance can return.
get_category_performance(d) ==
    sort_values(GroupSum(d, <<"Category">>, CategoryOrder))
        \X sort_values(GroupSum(d, <<"Category", "SubCategory">>, SubCategoryOrder))

\* The tables get_regional_performance can return.
get_regional_performance(d) == sort_values(GroupSum(d, <<"Region">>, RegionOrder))

get_time_series_data(d) == GroupSum(d, <<"YearMonth">>, PeriodOrder)

get_shipping_analysis(d) == GroupMean(d, <<"Category">>, CategoryOrder)

\* What a call gives: a table, or the exception it raises.
Returned(t) == [raised |-> "", table |-> t]
Raised(e) == [raised |-> e, table |-> <<>>]

identify_underperforming_segments(d) ==
    LET segment_sales == GroupSum(d, <<"Segment">>, SegmentOrder)
        total_sales == SeriesSum(segment_sales, "Sales")
        segment_share ==
            [ g \in 1..Len(segment_sales) |->
                [ Segment |-> segment_sales[g].key,
                  RevenueShare |->
                      F64TimesInt(F64Div(segment_sales[g].Sales, total_sales), 100) ] ]
    IN  IF Len(segment_share) = 0
        THEN Raised("ZeroDivisionError")
        ELSE LET avg_share == F64Div(100, Len(segment_share))
             IN  Returned(
                   [ g \in 1..Len(segment_share) |->
                       [ Segment |-> segment_share[g].Segment,
                         RevenueShare |-> segment_share[g].RevenueShare,
                         Status |-> IF F64Less(segment_share[g].RevenueShare, avg_share)
                                    THEN "Below Average" ELSE "Above Average" ] ])

(***************************************************************************)
(* app.py                                                                  *)
(***************************************************************************)

\* The dates a date_input can be set to, as datetime.date <<year, month, day>>.
Calendar == { <<2023, 1, 1>>, <<2023, 1, 15>>, <<2023, 2, 1>> }

\* Timestamp.date()
DateOf(ts) == CHOOSE d \in Calendar : TimestampOfDate(d) = ts

\* Series.unique().tolist(), as the set of the values
unique(d, col) == { d[i][col] : i \in 1..Len(d) }

min_date(d) ==
    DateOf(CHOOSE t \in unique(d, "OrderDate") : \A u \in unique(d, "OrderDate") : t <= u)
max_date(d) ==
    DateOf(CHOOSE t \in unique(d, "OrderDate") : \A u \in unique(d, "OrderDate") : t >= u)

\* The options of the sub-category multiselect under a category selection.
available_subcategories(d, selected_categories) ==
    unique(SelectSeq(d, LAMBDA r : r.Category \in selected_categories), "SubCategory")

Args(regions, segments, categories, sub_categories, date_range) ==
    [ regions |-> regions, segments |-> segments, categories |-> categories,
      sub_categories |-> sub_categories, date_range |-> date_range ]

\* The widgets' values on the first run of the script: every option selected.
DefaultArgs(d) ==
    Args(List(unique(d, "Region")), List(unique(d, "Segment")),
         List(unique(d, "Category")),
         List(available_subcategories(d, unique(d, "Category"))),
         Tuple(<<min_date(d), max_date(d)>>))

\* The dates a date_input of the sidebar accepts: min_value to max_value.
DateOptions(d) ==
    { c \in Calendar : /\ TimestampOfDate(c) >= TimestampOfDate(min_date(d))
                       /\ TimestampOfDate(c) <= TimestampOfDate(max_date(d)) }

\* The widgets' values after one widget of the sidebar changed. A multiselect
\* whose options change is a new widget and holds its default: changing the
\* categories selects every sub-category on offer.
WidgetChanges(d, a) ==
    { [a EXCEPT !.date_range = Tuple(<<sd, a.date_range.items[2]>>)] :
        sd \in DateOptions(d) \ {a.date_range.items[1]} }
    \cup { [a EXCEPT !.date_range = Tuple(<<a.date_range.items[1], ed>>)] :
              ed \in DateOptions(d) \ {a.date_range.items[2]} }
    \cup { [a EXCEPT !.regions = List(rs)] :
              rs \in (SUBSET unique(d, "Region")) \ {a.regions.items} }
    \cup { [a EXCEPT !.segments = List(ss)] :
              ss \in (SUBSET unique(d, "Segment")) \ {a.segments.items} }
    \cup { [a EXCEPT !.categories = List(cs),
                     !.sub_categories = List(available_subcategories(d, cs))] :
              cs \in (SUBSET unique(d, "Category")) \ {a.categories.items} }
    \cup { [a EXCEPT !.sub_categories = List(sc)] :
              sc \in (SUBSET available_subcategories(d, a.categories.items))
                        \ {a.sub_categories.items} }

\* Calls of filter_data from outside the script: arguments left out (None),
\* values no record has, a date_range that is no pair.
ApiArgs ==
    { Args(rs, ss, cs, sc, dr) :
        rs \in { None, List({"South"}) },
        ss \in { None, List({"Corporate", "Home Office"}) },
        cs \in { None, List({"Furniture"}) },
        sc \in { List({}), List({"Phones"}) },
        dr \in { NoRange, Tuple(<< <<2023, 1, 15>> >>) } }

\* The calls the aggregation specification makes.
AggArgs ==
    { Args(None, None, None, None, NoRange),
      Args(List({"West"}), None, None, None, NoRange),
      Args(None, None, None, None, Tuple(<< <<2023, 2, 1>>, <<2023, 1, 1>> >>)) }

NoArgs == Args(None, None, None, None, NoRange)
NoKpis == [ total_sales |-> 0, total_orders |-> 0, avg_order_value |-> Zero,
            avg_shipping_days |-> NaN ]

\* df = load_data() at the top of the script; nothing is computed yet.
Loaded(csv) ==
    /\ df = load_data(csv)
    /\ args = NoArgs
    /\ filtered_df = <<>>
    /\ kpis = NoKpis
    /\ category_sales = <<>>
    /\ subcategory_sales = <<>>
    /\ regional_sales = <<>>
    /\ time_series = <<>>
    /\ shipping_analysis = <<>>
    /\ segment_performance = Returned(<<>>)
    /\ phase = "loaded"

\* The files the filter specification loads: rows of two orders, each sold.
DashboardRows == { r \in CsvRows : r.OrderID \in {"A", "B"} /\ r.Sales > 0 }
DashboardFiles(n) == UNION { [1..k -> DashboardRows] : k \in 0..n }

Init == \E csv \in DashboardFiles(MaxRecords) : Loaded(csv)

InitAgg == \E csv \in CsvFiles(MaxAggRecords) : Loaded(csv)

\* Mutant of FilterInput: the script filters the view it computed last.
FilterInputLastView(loaded, view) == view

\* The record set the script filters: the loaded one.
FilterInput(loaded, view) == loaded

\* One run of the script from `filter_data(df, ...)` on, the reducers in the
\* order the script calls them.
Run(a, next_phase) ==
    LET v == filter_data(FilterInput(df, filtered_df), a.regions, a.segments,
                         a.categories, a.sub_categories, a.date_range)
    IN  /\ args' = a
        /\ filtered_df' = v
        /\ kpis' = get_kpi_metrics(v)
        /\ \E cp \in get_category_performance(v) :
              /\ category_sales' = cp[1]
              /\ subcategory_sales' = cp[2]
        /\ regional_sales' \in get_regional_performance(v)
        /\ time_series' = get_time_series_data(v)
        /\ shipping_analysis' = get_shipping_analysis(v)
        /\ segment_performance' = identify_underperforming_segments(v)
        /\ phase' = next_phase
        /\ UNCHANGED df

\* The first run of the script: the widgets hold their defaults.
FirstRun ==
    /\ phase = "loaded"
    /\ Len(df) > 0
    /\ Run(DefaultArgs(df), "rendered")

\* A rerun of the script after a widget changed.
FilterChange ==
    /\ phase = "rendered"
    /\ \E a \in WidgetChanges(df, args) : Run(a, "rendered")

\* filter_data and the reducers called directly, outside the script.
Query ==
    /\ phase # "rendered"
    /\ \E a \in ApiArgs : Run(a, "queried")

AggQuery ==
    /\ phase # "rendered"
    /\ \E a \in AggArgs : Run(a, "queried")

Next == FirstRun \/ FilterChange \/ Query

Spec == Init /\ [][Next]_vars

NextAgg == FirstRun \/ AggQuery

SpecAgg == InitAgg /\ [][NextAgg]_vars

(***************************************************************************)
(* Properties                                                              *)
(***************************************************************************)

Ran == phase # "loaded"

\* The view holds the row r.
InView(r) == \E j \in 1..Len(filtered_df) : filtered_df[j] = r

\* A selection that names at least one value.
NonEmpty(sel) == ~sel.none /\ sel.items # {}

\* The value v passes a selection: nothing selected, or v is selected.
Passes(sel, v) == NonEmpty(sel) => v \in sel.items

IsPair(dr) == ~dr.none /\ Len(dr.items) = 2

\* A date <<year, month, day>> as one number that orders like the calendar.
DayNumber(date) == Timestamp(date[1], date[2], date[3])

InRange(dr, r) ==
    IsPair(dr) => /\ DayNumber(dr.items[1]) <= r.OrderDate
                  /\ r.OrderDate <= DayNumber(dr.items[2])

PassesCategories(a, r) ==
    /\ Passes(a.regions, r.Region)
    /\ Passes(a.segments, r.Segment)
    /\ Passes(a.categories, r.Category)
    /\ Passes(a.sub_categories, r.SubCategory)

\* C1: filter_data returns exactly the records of the input that satisfy
\* every applied dimension: each returned record is a record of the input,
\* in the input's order and once; its value is in the selection of every
\* dimension whose selection is non-empty; no input record that satisfies
\* every applied predicate is left out; and a selection none of whose values
\* occurs in a record gives the empty result.
C1_FilterExact ==
    Ran =>
      /\ \A j \in 1..Len(filtered_df) : \E i \in 1..Len(df) : df[i] = filtered_df[j]
      /\ \A j, k \in 1..Len(filtered_df) :
            j < k => filtered_df[j].index < filtered_df[k].index
      /\ \A j \in 1..Len(filtered_df) : PassesCategories(args, filtered_df[j])
      /\ \A i \in 1..Len(df) :
            (PassesCategories(args, df[i]) /\ InRange(args.date_range, df[i]))
                => InView(df[i])
      /\ ( \/ (NonEmpty(args.regions)
                  /\ \A i \in 1..Len(df) : df[i].Region \notin args.regions.items)
           \/ (NonEmpty(args.segments)
                  /\ \A i \in 1..Len(df) : df[i].Segment \notin args.segments.items)
           \/ (NonEmpty(args.categories)
                  /\ \A i \in 1..Len(df) : df[i].Category \notin args.categories.items)
           \/ (NonEmpty(args.sub_categories)
                  /\ \A i \in 1..Len(df) :
                        df[i].SubCategory \notin args.sub_categories.items) )
            => filtered_df = <<>>

\* C1 witness: two dimensions are applied to two records; one is kept and
\* the other dropped.
C1_Witness ==
    /\ Ran
    /\ Len(df) = 2
    /\ Len(filtered_df) = 1
    /\ NonEmpty(args.regions)
    /\ NonEmpty(args.sub_categories)
    /\ \E i \in 1..2 : ~PassesCategories(args, df[i])

Unconstrained(a) ==
    /\ ~NonEmpty(a.regions)
    /\ ~NonEmpty(a.segments)
    /\ ~NonEmpty(a.categories)
    /\ ~NonEmpty(a.sub_categories)
    /\ a.date_range.none

\* C2: with every selection absent or an empty list and no date range,
\* filter_data returns the record set unchanged; and an empty list for one
\* dimension keeps every record the other dimensions keep, whatever its
\* value in that dimension.
C2_NoConstraintIsIdentity ==
    Ran =>
      /\ Unconstrained(args) => filtered_df = df
      /\ \A i \in 1..Len(df) :
            /\ (args.regions = List({})
                 /\ Passes(args.segments, df[i].Segment)
                 /\ Passes(args.categories, df[i].Category)
                 /\ Passes(args.sub_categories, df[i].SubCategory)
                 /\ InRange(args.date_range, df[i])) => InView(df[i])
            /\ (args.segments = List({})
                 /\ Passes(args.regions, df[i].Region)
                 /\ Passes(args.categories, df[i].Category)
                 /\ Passes(args.sub_categories, df[i].SubCategory)
                 /\ InRange(args.date_range, df[i])) => InView(df[i])
            /\ (args.categories = List({})
                 /\ Passes(args.regions, df[i].Region)
                 /\ Passes(args.segments, df[i].Segment)
                 /\ Passes(args.sub_categories, df[i].SubCategory)
                 /\ InRange(args.date_range, df[i])) => InView(df[i])
            /\ (args.sub_categories = List({})
                 /\ Passes(args.regions, df[i].Region)
                 /\ Passes(args.segments, df[i].Segment)
                 /\ Passes(args.categories, df[i].Category)
                 /\ InRange(args.date_range, df[i])) => InView(df[i])

\* C2 witness: a call with an empty list, the other arguments left out,
\* returned both records of the record set.
C2_Witness ==
    /\ Ran
    /\ Unconstrained(args)
    /\ args.sub_categories = List({})
    /\ Len(df) = 2
    /\ filtered_df = df

\* C3: with a (start, end) pair, the records kept are exactly those the
\* selections keep whose order date d has start <= d <= end; start after end
\* keeps none.
C3_DateRangeInclusive ==
    (Ran /\ IsPair(args.date_range)) =>
      LET start == DayNumber(args.date_range.items[1])
          end == DayNumber(args.date_range.items[2])
      IN  /\ \A i \in 1..Len(df) :
                InView(df[i]) <=>
                    /\ PassesCategories(args, df[i])
                    /\ start <= df[i].OrderDate
                    /\ df[i].OrderDate <= end
          /\ start > end => filtered_df = <<>>

\* C3 witness: start = end = the order date of the one record kept, and a
\* record of another date is dropped.
C3_Witness ==
    /\ Ran
    /\ IsPair(args.date_range)
    /\ args.date_range.items[1] = args.date_range.items[2]
    /\ Len(df) = 2
    /\ Len(filtered_df) = 1
    /\ filtered_df[1].OrderDate = DayNumber(args.date_range.items[1])
    /\ \A i \in 1..2 : PassesCategories(args, df[i])

RECURSIVE TotalSales(_)
\* The sales of the rows, added up.
TotalSales(rows) ==
    IF Len(rows) = 0 THEN 0
    ELSE rows[Len(rows)].Sales + TotalSales(SubSeq(rows, 1, Len(rows) - 1))

EmptyKpis(k) ==
    /\ k.total_sales = 0
    /\ k.total_orders = 0
    /\ k.avg_order_value = Zero

\* C4: on an empty subset no reducer raises, and each returns an empty or
\* zero-valued table.
C4_EmptySubsetNeverRaises ==
    (Ran /\ filtered_df = <<>>) =>
      /\ EmptyKpis(kpis)
      /\ category_sales = <<>>
      /\ subcategory_sales = <<>>
      /\ regional_sales = <<>>
      /\ time_series = <<>>
      /\ shipping_analysis = <<>>
      /\ segment_performance.raised = ""
      /\ segment_performance.table = <<>>

\* C5: avg_order_value is 0 on zero orders; every revenue share is 0 when the
\* subset is not empty and its total sales is zero; neither is NaN.
C5_DivideByZeroGivesZero ==
    Ran =>
      /\ kpis.total_orders = 0 => kpis.avg_order_value = Zero
      /\ kpis.avg_order_value # NaN
      /\ \A g \in 1..Len(segment_performance.table) :
            /\ segment_performance.table[g].RevenueShare # NaN
            /\ (filtered_df # <<>> /\ TotalSales(filtered_df) = 0)
                  => segment_performance.table[g].RevenueShare = Zero

\* C6: on a non-empty subset total_sales is the sum of the sales of its
\* records, total_orders the number of distinct order ids, avg_order_value
\* the quotient total_sales / total_orders.
C6_KpiValues ==
    (Ran /\ filtered_df # <<>>) =>
      LET ids == { filtered_df[j].OrderID : j \in 1..Len(filtered_df) }
      IN  /\ kpis.total_sales = TotalSales(filtered_df)
          /\ kpis.total_orders = Cardinality(ids)
          /\ kpis.avg_order_value = F64Div(TotalSales(filtered_df), Cardinality(ids))

\* C6 witness: (A, 100), (B, 200), (A, 50): total_sales 350, total_orders 2,
\* avg_order_value 175.
C6_Witness ==
    /\ Ran
    /\ [ j \in 1..Len(filtered_df) |-> <<filtered_df[j].OrderID, filtered_df[j].Sales>> ]
          = << <<"A", 100>>, <<"B", 200>>, <<"A", 50>> >>
    /\ kpis.total_sales = 350
    /\ kpis.total_orders = 2
    /\ kpis.avg_order_value = F64Div(175, 1)

\* The group of a row: its category, its <<category, sub-category>>, its
\* region or its <<year, month>>.
GroupOf(r, by) ==
    CASE by = "category" -> r.Category
      [] by = "sub-category" -> <<r.Category, r.SubCategory>>
      [] by = "region" -> r.Region
      [] by = "month" -> <<r.Year, r.Month>>

\* Every row of the view is in exactly one group of the table.
Partitions(table, by) ==
    /\ \A g, h \in 1..Len(table) : table[g].key = table[h].key => g = h
    /\ \A j \in 1..Len(filtered_df) :
          \E g \in 1..Len(table) : table[g].key = GroupOf(filtered_df[j], by)
    /\ \A g \in 1..Len(table) :
          \E j \in 1..Len(filtered_df) : table[g].key = GroupOf(filtered_df[j], by)

\* C7: the sales of the category table, of the category/sub-category table,
\* of the regional table and of the time series each add up to the total
\* sales of the subset, every record being in exactly one group of each.
C7_GroupSumsAddUp ==
    Ran =>
      /\ TotalSales(category_sales) = TotalSales(filtered_df)
      /\ TotalSales(subcategory_sales) = TotalSales(filtered_df)
      /\ TotalSales(regional_sales) = TotalSales(filtered_df)
      /\ TotalSales(time_series) = TotalSales(filtered_df)
      /\ Partitions(category_sales, "category")
      /\ Partitions(subcategory_sales, "sub-category")
      /\ Partitions(regional_sales, "region")
      /\ Partitions(time_series, "month")

\* C7 witness: three records in two categories, two regions and two months,
\* two of them in one group.
C7_Witness ==
    /\ Ran
    /\ Len(filtered_df) = 3
    /\ Len(category_sales) = 2
    /\ Len(subcategory_sales) = 3
    /\ Len(regional_sales) = 2
    /\ Len(time_series) = 2
    /\ TotalSales(filtered_df) = 350

\* The sales of the view's rows of one segment.
SegmentSales(seg) == TotalSales(SelectSeq(filtered_df, LAMBDA r : r.Segment = seg))

\* C8: with n segments in the subset, a segment is labelled below average
\* exactly when its share of the total sales is strictly less than 100 / n
\* (segment sales * n < total sales), and above average otherwise.
C8_LabelAgainstUniformShare ==
    (Ran /\ filtered_df # <<>> /\ TotalSales(filtered_df) > 0) =>
      LET n == Cardinality({ filtered_df[j].Segment : j \in 1..Len(filtered_df) })
          t == segment_performance.table
      IN  /\ segment_performance.raised = ""
          /\ Len(t) = n
          /\ \A g \in 1..Len(t) :
                t[g].Status = (IF SegmentSales(t[g].Segment) * n < TotalSales(filtered_df)
                               THEN "Below Average" ELSE "Above Average")

Descending(table) ==
    \A i \in 1..(Len(table) - 1) : table[i].Sales >= table[i + 1].Sales

\* The place of a key in the table before it is sorted.
Rank(order, k) == CHOOSE i \in 1..Len(order) : order[i] = k

\* Rows of equal sales are in the order they had before the sort.
TiesKeepOrder(table, order) ==
    \A i, j \in 1..Len(table) :
        (i < j /\ table[i].Sales = table[j].Sales)
            => Rank(order, table[i].key) < Rank(order, table[j].key)

RowIsGroupSum(row, by) ==
    row.Sales = TotalSales(SelectSeq(filtered_df, LAMBDA r : GroupOf(r, by) = row.key))

C10_RunsLeaveRecordSetAlone ==
    [][ /\ df' = df
        /\ filtered_df' =
              SelectSeq(df, LAMBDA r : PassesCategories(args', r) /\ InRange(args'.date_range, r))
      ]_vars

\* C10 witness: after at least two filter changes (two widgets are off their
\* defaults, one of them emptied) the view is one of the two records.
C10_Witness ==
    /\ phase = "rendered"
    /\ Len(df) = 2
    /\ Len(filtered_df) = 1
    /\ args.segments = List({})
    /\ args.regions # DefaultArgs(df).regions
    /\ args.regions # List({})

====
